---- MODULE Spec2Model ----
(***************************************************************************)
(* The safe wrapper around the native RyzenAdj library (src/src/lib.rs):   *)
(* the session handle's lifecycle (RyzenAdj::new, Drop), the table-init    *)
(* pre-check of the readers, the NaN guard, the status-code classification *)
(* of the writers, and refresh.                                            *)
(*                                                                         *)
(* The native library is the environment.  Every operation draws, with \E, *)
(* the answer the library has for it (a handle, an errno, a status code, a *)
(* reading); the wrapper consumes that answer only when it makes the call. *)
(* `last` is what a caller and the library observe of the latest public    *)
(* operation: its name and arguments, the library's answer, the native     *)
(* calls it made, in order, and the RyzenAdjResult it returned.            *)
(***************************************************************************)
EXTENDS Integers, Sequences, FiniteSets, TLC

VARIABLES
    phase,              \* "start", then "live" or "failed", then "dropped"
    ryzen_adj,          \* RyzenAdj.ryzen_adj
    init_table_result,  \* RyzenAdj.init_table_result
    init_table_ret,     \* history: what init_table returned to new, if called
    last,               \* the latest public operation, as observed
    cleanup_log         \* every call of cleanup_ryzenadj so far, in order

vars ==
    <<phase, ryzen_adj, init_table_result, init_table_ret, last, cleanup_log>>

(* ---- bounds of the model ---- *)

\* u32 magnitudes given to the writers are 0..MaxValue
MaxValue == 1

\* core indices given to the per-core readers are 0..MaxCore
MaxCore == 1

\* finite f32 readings and BIOS interface versions are 0..MaxReading
MaxReading == 1

\* errno values observed after a failed init_ryzenadj are 1..MaxErrno
MaxErrno == 2

\* status codes reach MaxExtra beyond the named ones, on both sides
MaxExtra == 1

(* ---- constants of the native library, as lib.rs names them ---- *)

ADJ_ERR_FAM_UNSUPPORTED == -1

ADJ_ERR_SMU_TIMEOUT == -2

ADJ_ERR_SMU_UNSUPPORTED == -3

ADJ_ERR_SMU_REJECTED == -4

ADJ_ERR_MEMORY_ACCESS == -5

\* ryzen_access is a raw pointer: NULL or the address of a live context
NULL == "NULL"

Handles == { "ctx1", "ctx2" }

\* Option<i32>
None == << >>

Some(x) == << x >>

\* f32: NaN or a finite reading
NaN == [nan |-> TRUE, bits |-> 0]

Finite(v) == [nan |-> FALSE, bits |-> v]

Floats == { NaN } \cup { Finite(v) : v \in 0..MaxReading }

Values == 0..MaxValue

Cores == 0..MaxCore

Errnos == 1..MaxErrno

\* i32 status codes a writer's native call answers with
Codes == (ADJ_ERR_MEMORY_ACCESS - MaxExtra)..MaxExtra

\* i32 status codes init_table and refresh_table answer with
TableCodes == { 0, ADJ_ERR_FAM_UNSUPPORTED, ADJ_ERR_MEMORY_ACCESS }

(* ---- RyzenAdjResult<T> ---- *)

Ok(v) == [ok |-> TRUE, val |-> v]

Unit == [unit |-> TRUE]

I32(n) == [int |-> n]

InitError(e) == [ok |-> FALSE, err |-> "InitError", errno |-> e]

InitTableError(c) == [ok |-> FALSE, err |-> "InitTableError", code |-> c]

GetNaN == [ok |-> FALSE, err |-> "GetNaN"]

AdjFamilyNotSupported == [ok |-> FALSE, err |-> "AdjFamilyNotSupported"]

AdjMemoryAccessError == [ok |-> FALSE, err |-> "AdjMemoryAccessError"]

AdjSmuRejected == [ok |-> FALSE, err |-> "AdjSmuRejected"]

AdjSmuTimeout == [ok |-> FALSE, err |-> "AdjSmuTimeout"]

AdjSmuUnsupported == [ok |-> FALSE, err |-> "AdjSmuUnsupported"]

AdjUnknowError(c) == [ok |-> FALSE, err |-> "AdjUnknowError", code |-> c]

\* one call of a function of libryzenadj_sys, with its arguments in order
Call(f, a) == [fn |-> f, args |-> a]

(* ---- the accessors, by name ---- *)

FloatGetters ==
    { "get_apu_skin_temp_limit", "get_apu_skin_temp_value",
      "get_apu_slow_limit", "get_apu_slow_value", "get_cclk_busy_value",
      "get_cclk_setpoint", "get_dgpu_skin_temp_limit",
      "get_dgpu_skin_temp_value", "get_fast_limit", "get_fast_value",
      "get_fclk", "get_gfx_temp", "get_gfx_clk", "get_gfx_volt",
      "get_l3_clk", "get_l3_logic", "get_l3_temp", "get_l3_vddm",
      "get_mem_clk", "get_psi0_current", "get_psi0soc_current",
      "get_slow_limit", "get_slow_time", "get_slow_value", "get_soc_power",
      "get_soc_volt", "get_socket_power", "get_stapm_limit",
      "get_stapm_time", "get_stapm_value", "get_tctl_temp",
      "get_tctl_temp_value", "get_vrm_current", "get_vrm_current_value",
      "get_vrmmax_current", "get_vrmmax_current_value", "get_vrmsoc_current",
      "get_vrmsoc_current_value", "get_vrmsocmax_current",
      "get_vrmsocmax_current_value" }

CoreGetters ==
    { "get_core_clk", "get_core_power", "get_core_temp", "get_core_volt" }

ValueSetters ==
    { "set_apu_skin_temp_limit", "set_apu_slow_limit", "set_coall",
      "set_cogfx", "set_coper", "set_dgpu_skin_temp_limit", "set_fast_limit",
      "set_gfx_clk", "set_max_fclk_freq", "set_max_gfxclk_freq",
      "set_max_lclk", "set_max_socclk_freq", "set_max_vcn",
      "set_min_fclk_freq", "set_min_gfxclk_freq", "set_min_lclk",
      "set_min_socclk_freq", "set_min_vcn", "set_oc_clk", "set_oc_volt",
      "set_per_core_oc_clk", "set_prochot_deassertion_ramp",
      "set_psi0_current", "set_psi0soc_current", "set_psi3cpu_current",
      "set_psi3gfx_current", "set_skin_temp_power_limit", "set_slow_limit",
      "set_slow_time", "set_stapm_limit", "set_stapm_time", "set_tctl_temp",
      "set_vrm_current", "set_vrmcvip_current", "set_vrmgfx_current",
      "set_vrmgfxmax_current", "set_vrmmax_current", "set_vrmsoc_current",
      "set_vrmsocmax_current" }

PlainSetters ==
    { "set_enable_oc", "set_disable_oc", "set_max_performance",
      "set_power_saving" }

\* the first magnitude and the step of the sweep of tests::init_test
SweepStart == 1047565

SweepStep == 100

\* the writers of the curve optimizer, global and per core
CurveOptimizers == { "set_coall", "set_coper" }

\* magnitudes given to the curve-optimizer writers: besides the small ones,
\* the offsets 30 and 31 as the caller would write them, a magnitude near
\* 0x100000, and the first two of the test's sweep
CoValues ==
    Values \cup { 30, 31, 2^20 - 30, SweepStart, SweepStart + SweepStep }

\* magnitudes a writer is called with
ValuesOf(name) ==
    IF name \in CurveOptimizers THEN CoValues ELSE Values

\* every reader but get_cpu_family and get_bios_if_ver passes its value to is_nan
Readers == FloatGetters \cup CoreGetters \cup { "get_bios_if_ver", "get_cpu_family" }

Writers == ValueSetters \cup PlainSetters

\* the function of libryzenadj_sys an f32 reader calls
NativeGet(name) ==
    IF name = "get_tctl_temp_value" THEN "get_tctl_temp" ELSE name

\* the function of libryzenadj_sys a writer calls
NativeSet(name) ==
    IF name \in { "set_cogfx", "set_coper", "set_dgpu_skin_temp_limit" }
    THEN "set_coall"
    ELSE name

(* ---- enum RyzenFamily: the discriminants are the native ryzen_family ---- *)

ryzen_family_FAM_UNKNOWN == -1

ryzen_family_FAM_RAVEN == 0

ryzen_family_FAM_PICASSO == 1

ryzen_family_FAM_RENOIR == 2

ryzen_family_FAM_CEZANNE == 3

ryzen_family_FAM_DALI == 4

ryzen_family_FAM_LUCIENNE == 5

ryzen_family_FAM_VANGOGH == 6

ryzen_family_FAM_REMBRANDT == 7

RyzenFamily ==
    { <<ryzen_family_FAM_UNKNOWN, "Unknow">>,
      <<ryzen_family_FAM_RAVEN, "Raven">>,
      <<ryzen_family_FAM_PICASSO, "Picassso">>,
      <<ryzen_family_FAM_RENOIR, "Renoir">>,
      <<ryzen_family_FAM_CEZANNE, "Cezanne">>,
      <<ryzen_family_FAM_DALI, "Dali">>,
      <<ryzen_family_FAM_LUCIENNE, "Lucienne">>,
      <<ryzen_family_FAM_VANGOGH, "Vangogh">>,
      <<ryzen_family_FAM_REMBRANDT, "Rembrandt">> }

Family(name) == [family |-> name]

\* raw identifiers get_cpu_family answers with
FamilyIds ==
    (ryzen_family_FAM_UNKNOWN - MaxExtra)..(ryzen_family_FAM_REMBRANDT + MaxExtra)

\* mutant: the conversion knows the named families only, not FAM_UNKNOWN
try_from_known_only(family_int) ==
    IF \E m \in RyzenFamily :
          m[1] = family_int /\ m[1] # ryzen_family_FAM_UNKNOWN
    THEN Ok(Family((CHOOSE m \in RyzenFamily : m[1] = family_int)[2]))
    ELSE [ok |-> FALSE, err |-> "TryFromPrimitiveError"]

\* #[derive(TryFromPrimitive)]: the member whose discriminant is the integer
try_from(family_int) ==
    IF \E m \in RyzenFamily : m[1] = family_int
    THEN Ok(Family((CHOOSE m \in RyzenFamily : m[1] = family_int)[2]))
    ELSE [ok |-> FALSE, err |-> "TryFromPrimitiveError"]

UnknowFamily(c) == [ok |-> FALSE, err |-> "UnknowFamily", code |-> c]

(* ---- the private helpers ---- *)

is_init_table(itr) ==
    IF itr # None THEN InitTableError(itr[1]) ELSE Ok(Unit)

\* mutant: the NaN guard lets the value through
is_nan_passthrough(value) ==
    Ok(value)

is_nan(value) ==
    IF value.nan THEN GetNaN ELSE Ok(value)

\* mutant: two arms of the match carry each other's error
adj_code_swapped(code) ==
    CASE code = 0 -> Ok(Unit)
      [] code = ADJ_ERR_FAM_UNSUPPORTED -> AdjFamilyNotSupported
      [] code = ADJ_ERR_MEMORY_ACCESS -> AdjMemoryAccessError
      [] code = ADJ_ERR_SMU_REJECTED -> AdjSmuTimeout
      [] code = ADJ_ERR_SMU_TIMEOUT -> AdjSmuRejected
      [] code = ADJ_ERR_SMU_UNSUPPORTED -> AdjSmuUnsupported
      [] OTHER -> AdjUnknowError(code)

adj_code(code) ==
    CASE code = 0 -> Ok(Unit)
      [] code = ADJ_ERR_FAM_UNSUPPORTED -> AdjFamilyNotSupported
      [] code = ADJ_ERR_MEMORY_ACCESS -> AdjMemoryAccessError
      [] code = ADJ_ERR_SMU_REJECTED -> AdjSmuRejected
      [] code = ADJ_ERR_SMU_TIMEOUT -> AdjSmuTimeout
      [] code = ADJ_ERR_SMU_UNSUPPORTED -> AdjSmuUnsupported
      [] OTHER -> AdjUnknowError(code)

(* ---- the public operations: what each returns and the native calls ---- *)
(* ---- it makes, given the library's answer                          ---- *)

\* mutant: new without the null check
new_unchecked(n) ==
    [result |-> Ok([ryzen_adj |-> n.handle,
                    init_table_result |->
                        IF n.table # 0 THEN Some(n.table) ELSE None]),
     calls |-> << Call("init_ryzenadj", << >>),
                  Call("init_table", << n.handle >>) >>]

\* mutant: new raises a failed init_table as its own failure
new_strict(n) ==
    IF n.handle = NULL
    THEN [result |-> InitError(n.errno),
          calls |-> << Call("init_ryzenadj", << >>) >>]
    ELSE [result |-> IF n.table # 0
                     THEN InitTableError(n.table)
                     ELSE Ok([ryzen_adj |-> n.handle,
                              init_table_result |-> None]),
          calls |-> << Call("init_ryzenadj", << >>),
                       Call("init_table", << n.handle >>) >>]

\* RyzenAdj::new; n is the library's answer: the handle init_ryzenadj
\* returns, the errno it leaves, the status init_table returns
new(n) ==
    IF n.handle = NULL
    THEN [result |-> InitError(n.errno),
          calls |-> << Call("init_ryzenadj", << >>) >>]
    ELSE [result |-> Ok([ryzen_adj |-> n.handle,
                         init_table_result |->
                             IF n.table # 0 THEN Some(n.table) ELSE None]),
          calls |-> << Call("init_ryzenadj", << >>),
                       Call("init_table", << n.handle >>) >>]

\* mutant: refresh calls refresh_table whatever is recorded, and a status of
\* 0 clears the record
refresh_clearing(self, r) ==
    [result |-> IF r # 0 THEN InitTableError(r) ELSE Ok(Unit),
     calls |-> << Call("refresh_table", << self.ryzen_adj >>) >>,
     init_table_result |-> IF r # 0 THEN self.init_table_result ELSE None]

\* mutant: refresh without the pre-check
refresh_unchecked(self, r) ==
    [result |-> IF r # 0 THEN InitTableError(r) ELSE Ok(Unit),
     calls |-> << Call("refresh_table", << self.ryzen_adj >>) >>,
     init_table_result |-> self.init_table_result]

\* mutant: refresh records the status of a failed refresh_table
refresh_recording(self, r) ==
    LET chk == is_init_table(self.init_table_result)
    IN  IF ~chk.ok
        THEN [result |-> chk, calls |-> << >>,
              init_table_result |-> self.init_table_result]
        ELSE [result |-> IF r # 0 THEN InitTableError(r) ELSE Ok(Unit),
              calls |-> << Call("refresh_table", << self.ryzen_adj >>) >>,
              init_table_result |-> IF r # 0 THEN Some(r) ELSE None]

\* RyzenAdj::refresh; r is the status refresh_table has for this handle.
\* refresh borrows the session immutably: init_table_result stays as it is
refresh(self, r) ==
    LET chk == is_init_table(self.init_table_result)
    IN  IF ~chk.ok
        THEN [result |-> chk, calls |-> << >>,
              init_table_result |-> self.init_table_result]
        ELSE [result |-> IF r # 0 THEN InitTableError(r) ELSE Ok(Unit),
              calls |-> << Call("refresh_table", << self.ryzen_adj >>) >>,
              init_table_result |-> self.init_table_result]

\* the f32 readers without a parameter; v is the reading the library has
get_f32(self, name, v) ==
    LET chk == is_init_table(self.init_table_result)
    IN  IF ~chk.ok
        THEN [result |-> chk, calls |-> << >>]
        ELSE [result |-> is_nan(v),
              calls |-> << Call(NativeGet(name), << self.ryzen_adj >>) >>]

\* mutant: a per-core reader that asks for core 0 whatever the caller gave
get_core_first(self, name, core, v) ==
    LET chk == is_init_table(self.init_table_result)
    IN  IF ~chk.ok
        THEN [result |-> chk, calls |-> << >>]
        ELSE [result |-> is_nan(v),
              calls |-> << Call(name, << self.ryzen_adj, 0 >>) >>]

\* get_core_clk, get_core_power, get_core_temp, get_core_volt
get_core(self, name, core, v) ==
    LET chk == is_init_table(self.init_table_result)
    IN  IF ~chk.ok
        THEN [result |-> chk, calls |-> << >>]
        ELSE [result |-> is_nan(v),
              calls |-> << Call(name, << self.ryzen_adj, core >>) >>]

get_bios_if_ver(self, n) ==
    LET chk == is_init_table(self.init_table_result)
    IN  IF ~chk.ok
        THEN [result |-> chk, calls |-> << >>]
        ELSE [result |-> Ok(I32(n)),
              calls |-> << Call("get_bios_if_ver", << self.ryzen_adj >>) >>]

\* mutant: an identifier that is no member falls back to Unknow
get_cpu_family_fallback(self, family_int) ==
    LET chk == is_init_table(self.init_table_result)
        fam == try_from(family_int)
    IN  IF ~chk.ok
        THEN [result |-> chk, calls |-> << >>]
        ELSE [result |-> IF fam.ok THEN fam ELSE Ok(Family("Unknow")),
              calls |-> << Call("get_cpu_family", << self.ryzen_adj >>) >>]

get_cpu_family(self, family_int) ==
    LET chk == is_init_table(self.init_table_result)
        fam == try_from(family_int)
    IN  IF ~chk.ok
        THEN [result |-> chk, calls |-> << >>]
        ELSE [result |-> IF fam.ok THEN fam ELSE UnknowFamily(family_int),
              calls |-> << Call("get_cpu_family", << self.ryzen_adj >>) >>]

\* mutant: a writer that runs the readers' pre-check first
set_value_gated(self, name, value, code) ==
    LET chk == is_init_table(self.init_table_result)
    IN  IF ~chk.ok
        THEN [result |-> chk, calls |-> << >>]
        ELSE [result |-> adj_code(code),
              calls |-> << Call(NativeSet(name), << self.ryzen_adj, value >>) >>]

\* the error kind the specification gives an offset outside [-30, 30];
\* RyzenAdjError has no such variant
ValueOutOfRange == [ok |-> FALSE, err |-> "ValueOutOfRange"]

\* mutant: the curve-optimizer writers refuse a value above 30 locally
set_value_ranged(self, name, value, code) ==
    IF name \in CurveOptimizers /\ value > 30
    THEN [result |-> ValueOutOfRange, calls |-> << >>]
    ELSE [result |-> adj_code(code),
          calls |-> << Call(NativeSet(name), << self.ryzen_adj, value >>) >>]

\* mutant: set_coall takes its value for an offset and encodes it
set_value_encoding(self, name, value, code) ==
    [result |-> adj_code(code),
     calls |-> << Call(NativeSet(name),
                       << self.ryzen_adj,
                          IF name = "set_coall" /\ value <= 30
                          THEN 2^20 - value
                          ELSE value >>) >>]

\* mutant: set_coper takes its value for an offset of core 0 and encodes it
set_value_percore(self, name, value, code) ==
    [result |-> adj_code(code),
     calls |-> << Call(NativeSet(name),
                       << self.ryzen_adj,
                          IF name = "set_coper" /\ value <= 30
                          THEN 0 * 2^20 + (2^20 - value)
                          ELSE value >>) >>]

\* mutant: a writer that passes its value on as a 16-bit one
set_value_truncating(self, name, value, code) ==
    [result |-> adj_code(code),
     calls |-> << Call(NativeSet(name), << self.ryzen_adj, value % 2^16 >>) >>]

\* the writers that take a u32 magnitude; code is the status the library has
set_value(self, name, value, code) ==
    [result |-> adj_code(code),
     calls |-> << Call(NativeSet(name), << self.ryzen_adj, value >>) >>]

\* set_enable_oc, set_disable_oc, set_max_performance, set_power_saving
set_plain(self, name, code) ==
    [result |-> adj_code(code),
     calls |-> << Call(name, << self.ryzen_adj >>) >>]

\* mutant: drop releases the handle twice
drop_twice(self) ==
    << Call("cleanup_ryzenadj", << self.ryzen_adj >>),
       Call("cleanup_ryzenadj", << self.ryzen_adj >>) >>

\* impl Drop for RyzenAdj: the native calls drop makes
drop(self) ==
    << Call("cleanup_ryzenadj", << self.ryzen_adj >>) >>

(* ---- the state machine ---- *)

\* the live session, as the struct RyzenAdj
Self == [ryzen_adj |-> ryzen_adj, init_table_result |-> init_table_result]

Op(name, a, n, r) ==
    [op |-> name, args |-> a, native |-> n, calls |-> r.calls,
     result |-> r.result]

Init ==
    /\ phase = "start"
    /\ ryzen_adj = NULL
    /\ init_table_result = None
    /\ init_table_ret = None
    /\ last = [op |-> "none", args |-> << >>, native |-> Unit,
               calls |-> << >>, result |-> Ok(Unit)]
    /\ cleanup_log = << >>

New ==
    /\ phase = "start"
    /\ \E h \in Handles \cup { NULL }, e \in Errnos, t \in TableCodes :
          LET n == [handle |-> h, errno |-> e, table |-> t]
              r == new(n)
          IN  /\ last' = Op("new", << >>, n, r)
              /\ IF r.result.ok
                 THEN /\ phase' = "live"
                      /\ ryzen_adj' = r.result.val.ryzen_adj
                      /\ init_table_result' = r.result.val.init_table_result
                 ELSE /\ phase' = "failed"
                      /\ UNCHANGED <<ryzen_adj, init_table_result>>
              /\ init_table_ret' =
                     IF \E i \in 1..Len(r.calls) : r.calls[i].fn = "init_table"
                     THEN Some(t)
                     ELSE None
    /\ UNCHANGED cleanup_log

Refresh ==
    /\ phase = "live"
    /\ \E r \in TableCodes :
          LET out == refresh(Self, r)
          IN  /\ last' = Op("refresh", << >>, I32(r), out)
              /\ init_table_result' = out.init_table_result
    /\ UNCHANGED <<phase, ryzen_adj, init_table_ret, cleanup_log>>

GetF32 ==
    /\ phase = "live"
    /\ \E name \in FloatGetters, v \in Floats :
          last' = Op(name, << >>, v, get_f32(Self, name, v))
    /\ UNCHANGED <<phase, ryzen_adj, init_table_result, init_table_ret,
                   cleanup_log>>

GetCore ==
    /\ phase = "live"
    /\ \E name \in CoreGetters, core \in Cores, v \in Floats :
          last' = Op(name, << core >>, v, get_core(Self, name, core, v))
    /\ UNCHANGED <<phase, ryzen_adj, init_table_result, init_table_ret,
                   cleanup_log>>

GetBiosIfVer ==
    /\ phase = "live"
    /\ \E n \in 0..MaxReading :
          last' = Op("get_bios_if_ver", << >>, I32(n), get_bios_if_ver(Self, n))
    /\ UNCHANGED <<phase, ryzen_adj, init_table_result, init_table_ret,
                   cleanup_log>>

GetCpuFamily ==
    /\ phase = "live"
    /\ \E id \in FamilyIds :
          last' = Op("get_cpu_family", << >>, I32(id), get_cpu_family(Self, id))
    /\ UNCHANGED <<phase, ryzen_adj, init_table_result, init_table_ret,
                   cleanup_log>>

SetValue ==
    /\ phase = "live"
    /\ \E name \in ValueSetters, code \in Codes : \E value \in ValuesOf(name) :
          last' = Op(name, << value >>, I32(code),
                     set_value(Self, name, value, code))
    /\ UNCHANGED <<phase, ryzen_adj, init_table_result, init_table_ret,
                   cleanup_log>>

SetPlain ==
    /\ phase = "live"
    /\ \E name \in PlainSetters, code \in Codes :
          last' = Op(name, << >>, I32(code), set_plain(Self, name, code))
    /\ UNCHANGED <<phase, ryzen_adj, init_table_result, init_table_ret,
                   cleanup_log>>

\* the session goes out of scope: Rust runs drop once and the value is gone
Drop ==
    /\ phase = "live"
    /\ phase' = "dropped"
    /\ cleanup_log' = cleanup_log \o drop(Self)
    /\ UNCHANGED <<ryzen_adj, init_table_result, init_table_ret, last>>

Next ==
    \/ New
    \/ Refresh
    \/ GetF32
    \/ GetCore
    \/ GetBiosIfVer
    \/ GetCpuFamily
    \/ SetValue
    \/ SetPlain
    \/ Drop

Spec == Init /\ [][Next]_vars

(* ---- the properties ---- *)

\* a session exists, or existed: new returned Ok
Constructed == phase \in { "live", "dropped" }

\* the step is a new public operation on the session
Acts == last' # last

Cleanup(h) == Call("cleanup_ryzenadj", << h >>)

\* C1: after a construction that succeeded, cleanup_ryzenadj is called
\* exactly once, on the session's handle, when the session is dropped,
\* whatever operations were made in between and however they ended; it is
\* not called before the drop, never twice, and never after a construction
\* that failed.
C1_ReleasedExactlyOnce ==
    /\ phase = "dropped" => cleanup_log = << Cleanup(ryzen_adj) >>
    /\ phase = "dropped" => ryzen_adj \in Handles
    /\ phase # "dropped" => cleanup_log = << >>

\* a session is dropped after an operation on it failed, and is released
C1_Witness ==
    /\ phase = "dropped"
    /\ last.op \in Readers \cup Writers \cup { "refresh" }
    /\ ~last.result.ok
    /\ Len(cleanup_log) = 1

\* C2: when init_table returned S # 0 to new, every reader fails with
\* InitTableError(S) and makes no native call, while every writer makes its
\* one native call and returns what that call's status code gives.
C2_FailedInitBlocksReadsOnly ==
    (Constructed /\ init_table_ret # None /\ init_table_ret # Some(0)) =>
        /\ last.op \in Readers =>
              /\ last.result = InitTableError(init_table_ret[1])
              /\ last.calls = << >>
        /\ last.op \in Writers =>
              /\ Len(last.calls) = 1
              /\ last.calls[1].args[1] = ryzen_adj
              /\ last.result.ok <=> last.native.int = 0
              /\ ~last.result.ok => last.result.err # "InitTableError"

\* after a failed init_table a writer made its call and succeeded
C2_Witness ==
    /\ init_table_ret = Some(ADJ_ERR_MEMORY_ACCESS)
    /\ last.op \in ValueSetters
    /\ Len(last.calls) = 1
    /\ last.result = Ok(Unit)

\* C3, as the specification states it: a refresh for which the native
\* refresh reports 0, on a session whose init_table failed, succeeds and
\* clears the recorded status.
C3_RefreshClearsStatus ==
    ( /\ Constructed
      /\ init_table_ret # None
      /\ init_table_ret # Some(0)
      /\ last.op = "refresh"
      /\ last.native = I32(0) ) =>
        /\ last.result = Ok(Unit)
        /\ init_table_result = None

\* C3, amended: on a session whose init_table failed with S no refresh
\* succeeds or clears the record, not even one for which the native refresh
\* reports 0: refresh returns InitTableError(S), S stays recorded, and the
\* readers keep failing with InitTableError(S).
C3_RefreshNeverClearsStatus ==
    (Constructed /\ init_table_ret # None /\ init_table_ret # Some(0)) =>
        /\ init_table_result = init_table_ret
        /\ last.op = "refresh" => last.result = InitTableError(init_table_ret[1])
        /\ last.op \in Readers => last.result = InitTableError(init_table_ret[1])

\* a refresh the native library would have answered with 0 failed with the
\* recorded status, which is still recorded
C3_Witness ==
    /\ init_table_ret = Some(ADJ_ERR_MEMORY_ACCESS)
    /\ last.op = "refresh"
    /\ last.native = I32(0)
    /\ last.result = InitTableError(ADJ_ERR_MEMORY_ACCESS)
    /\ init_table_result = Some(ADJ_ERR_MEMORY_ACCESS)

\* C4: a refresh made while a status is recorded fails with InitTableError
\* carrying that status, makes no call of refresh_table, and so does not
\* depend on what refresh_table would report.
C4_RefreshFailsOnRecordedStatus ==
    [][ (phase = "live" /\ init_table_result # None
         /\ Acts /\ last'.op = "refresh") =>
            /\ last'.result = InitTableError(init_table_result[1])
            /\ last'.calls = << >> ]_vars

\* a refresh failed with the recorded status although refresh_table had
\* another one to report
C4_Witness ==
    /\ last.op = "refresh"
    /\ init_table_result = Some(ADJ_ERR_FAM_UNSUPPORTED)
    /\ last.native = I32(ADJ_ERR_MEMORY_ACCESS)
    /\ last.result = InitTableError(ADJ_ERR_FAM_UNSUPPORTED)
    /\ last.calls = << >>

\* the latest operation is a refresh whose refresh_table reported R # 0
RefreshFailedNatively ==
    /\ last.op = "refresh"
    /\ Len(last.calls) = 1
    /\ last.native # I32(0)

\* C5, as the specification states it: once refresh_table has reported
\* R # 0, refresh returns InitTableError(R) and the next reader is blocked:
\* it fails with InitTableError.
C5_FailedRefreshBlocksReads ==
    [][ (RefreshFailedNatively /\ Acts /\ last'.op \in Readers) =>
            /\ last.result = InitTableError(last.native.int)
            /\ ~last'.result.ok
            /\ last'.result.err = "InitTableError" ]_vars

\* C5, amended: when refresh_table reports R # 0, refresh returns
\* InitTableError(R) and records nothing: the Table-Init Status stays ok, so
\* the next reader is not blocked (it makes its native call and does not fail
\* with InitTableError), and the next writer makes its call as ever.
C5_FailedRefreshRecordsNothing ==
    [][ RefreshFailedNatively =>
            /\ last.result = InitTableError(last.native.int)
            /\ init_table_result = None
            /\ init_table_result' = None
            /\ (Acts /\ last'.op \in Readers \cup Writers) =>
                  /\ Len(last'.calls) = 1
                  /\ ~last'.result.ok => last'.result.err # "InitTableError"
      ]_vars

\* refresh_table reported a failure and refresh returned it
C5_Witness ==
    /\ RefreshFailedNatively
    /\ last.result = InitTableError(ADJ_ERR_MEMORY_ACCESS)
    /\ init_table_result = None

\* the native calls of the latest operation that are calls of f
CallsOf(f) == { i \in 1..Len(last.calls) : last.calls[i].fn = f }

\* C6: when init_ryzenadj returns a null handle, new fails with InitError
\* carrying the errno the library left, init_table is not called, no
\* session exists (no operation can follow) and cleanup_ryzenadj is never
\* called.
C6_NullHandleFailsConstruction ==
    /\ (last.op = "new" /\ last.native.handle = NULL) =>
          /\ last.result = InitError(last.native.errno)
          /\ last.calls = << Call("init_ryzenadj", << >>) >>
          /\ init_table_ret = None
          /\ phase = "failed"
    /\ phase = "failed" =>
          /\ last.op = "new"
          /\ last.native.handle = NULL
          /\ cleanup_log = << >>

\* a construction failed on a null handle and gave the errno of that moment
C6_Witness ==
    /\ phase = "failed"
    /\ last.native.handle = NULL
    /\ last.result = InitError(MaxErrno)

\* C7: when init_ryzenadj returns a non-null handle, new calls init_table
\* once, on that handle, and returns a session: its init_table_result is
\* None exactly when init_table returned 0 and is otherwise Some of the
\* status returned; the failure of init_table is never returned as an error
\* of new, and no later operation calls init_table.
C7_NonNullHandleGivesSession ==
    /\ (last.op = "new" /\ last.native.handle # NULL) =>
          /\ last.calls = << Call("init_ryzenadj", << >>),
                             Call("init_table", << last.native.handle >>) >>
          /\ last.result.ok
          /\ Constructed
          /\ ryzen_adj = last.native.handle
          /\ init_table_result = None <=> last.native.table = 0
          /\ last.native.table # 0 =>
                init_table_result = Some(last.native.table)
          /\ last.result.val = Self
    /\ last.op # "new" => CallsOf("init_table") = { }

\* new returned a session that records the failure of init_table
C7_Witness ==
    /\ last.op = "new"
    /\ phase = "live"
    /\ last.native.table = ADJ_ERR_MEMORY_ACCESS
    /\ init_table_result = Some(ADJ_ERR_MEMORY_ACCESS)

F32Readers == FloatGetters \cup CoreGetters

\* C8: an f32 reader on a session whose Table-Init Status is ok fails with
\* GetNaN when the native call returns NaN, and no f32 reader ever returns
\* NaN as its value.
C8_NaNIsRejected ==
    /\ (last.op \in F32Readers /\ init_table_result = None
        /\ last.native = NaN) => last.result = GetNaN
    /\ (last.op \in F32Readers /\ last.result.ok) => ~last.result.val.nan

\* a per-core reader got NaN from the library and failed with GetNaN
C8_Witness ==
    /\ last.op \in CoreGetters
    /\ last.native = NaN
    /\ Len(last.calls) = 1
    /\ last.result = GetNaN

\* C9: a reader on a session whose Table-Init Status is ok makes exactly one
\* native call, on the session's handle; an f32 reading that is not NaN and
\* the BIOS interface version are returned as the library gave them; a
\* per-core reader passes the caller's core index on as it is.
C9_ReadIsOnePassThroughCall ==
    (last.op \in Readers /\ init_table_result = None) =>
        /\ Len(last.calls) = 1
        /\ last.calls[1].args[1] = ryzen_adj
        /\ (last.op \in F32Readers /\ last.native # NaN) =>
              last.result = Ok(last.native)
        /\ last.op = "get_bios_if_ver" => last.result = Ok(last.native)
        /\ last.op \in CoreGetters =>
              last.calls[1].args = << ryzen_adj, last.args[1] >>
        /\ last.op \notin CoreGetters => last.calls[1].args = << ryzen_adj >>

\* a per-core reader passed the highest core index on and returned the
\* library's reading
C9_Witness ==
    /\ last.op = "get_core_volt"
    /\ last.args = << MaxCore >>
    /\ last.calls = << Call("get_core_volt", << ryzen_adj, MaxCore >>) >>
    /\ last.result = Ok(Finite(MaxReading))

\* C10: every writer, the four without a parameter included, makes one
\* native call and returns the class of its status code: 0 gives Ok, each of
\* the five named codes its own error, any other code c AdjUnknowError(c).
\* Every code has exactly one class.
C10_WriteStatusClassified ==
    last.op \in Writers =>
        LET c == last.native.int
            named == { ADJ_ERR_FAM_UNSUPPORTED, ADJ_ERR_MEMORY_ACCESS,
                       ADJ_ERR_SMU_REJECTED, ADJ_ERR_SMU_TIMEOUT,
                       ADJ_ERR_SMU_UNSUPPORTED }
        IN  /\ Len(last.calls) = 1
            /\ c = 0 <=> last.result = Ok(Unit)
            /\ c = ADJ_ERR_FAM_UNSUPPORTED <=>
                  last.result = AdjFamilyNotSupported
            /\ c = ADJ_ERR_MEMORY_ACCESS <=> last.result = AdjMemoryAccessError
            /\ c = ADJ_ERR_SMU_REJECTED <=> last.result = AdjSmuRejected
            /\ c = ADJ_ERR_SMU_TIMEOUT <=> last.result = AdjSmuTimeout
            /\ c = ADJ_ERR_SMU_UNSUPPORTED <=> last.result = AdjSmuUnsupported
            /\ c \notin named \cup { 0 } <=> last.result = AdjUnknowError(c)

\* a writer without a parameter got a code that has no name and returned it
C10_Witness ==
    /\ last.op \in PlainSetters
    /\ last.native.int \in Codes
    /\ last.native.int < ADJ_ERR_MEMORY_ACCESS
    /\ last.result = AdjUnknowError(last.native.int)

\* C11, as the specification states it: the curve-optimizer writers take an
\* offset; one up to 30 reaches the native call, one above 30 fails with
\* ValueOutOfRange and no native call is made.
C11_OffsetRangeChecked ==
    last.op \in CurveOptimizers =>
        /\ last.args[1] <= 30 => Len(last.calls) = 1
        /\ last.args[1] > 30 =>
              /\ last.calls = << >>
              /\ last.result = ValueOutOfRange

\* C11, amended: set_coall and set_coper take a raw u32 magnitude and check
\* no range: every value, 31 and above included, reaches the native call in
\* one call, no ValueOutOfRange is ever returned, and the result is the class
\* of the native status.
C11_NoRangeCheck ==
    last.op \in CurveOptimizers =>
        /\ Len(last.calls) = 1
        /\ last.result # ValueOutOfRange
        /\ last.result.ok <=> last.native.int = 0

\* the per-core writer was given 31, made its call and succeeded
C11_Witness ==
    /\ last.op = "set_coper"
    /\ last.args = << 31 >>
    /\ Len(last.calls) = 1
    /\ last.result = Ok(Unit)

\* C12, as the specification states it: for an offset o up to 30 the global
\* curve-optimizer writer gives the native call the magnitude 0x100000 - o.
C12_GlobalOffsetEncoded ==
    (last.op = "set_coall" /\ last.args[1] <= 30) =>
        /\ Len(last.calls) = 1
        /\ last.calls[1].args[2] = 2^20 - last.args[1]

\* C12, amended: set_coall does no encoding: the native call gets the u32
\* the caller gave, unchanged; a caller who means the offset 30 passes
\* 0x100000 - 30 himself.
C12_GlobalMagnitudeUnchanged ==
    last.op = "set_coall" =>
        /\ Len(last.calls) = 1
        /\ last.calls[1].args = << ryzen_adj, last.args[1] >>

\* set_coall was given 30 and the native call got 30
C12_Witness ==
    /\ last.op = "set_coall"
    /\ last.args = << 30 >>
    /\ Len(last.calls) = 1
    /\ last.calls[1].args[2] = 30

\* C13, as the specification states it: for an offset o up to 30 the
\* per-core writer gives the native call c * 0x100000 + (0x100000 - o) for
\* the core c it is about.
C13_PerCoreOffsetEncoded ==
    (last.op = "set_coper" /\ last.args[1] <= 30) =>
        /\ Len(last.calls) = 1
        /\ \E c \in Cores :
              last.calls[1].args[2] = c * 2^20 + (2^20 - last.args[1])

\* C13, amended: set_coper takes one raw u32 and no core index, and does no
\* encoding: the native call gets that u32 unchanged; a caller who means
\* core c and offset o passes c * 0x100000 + (0x100000 - o) himself.
C13_PerCoreMagnitudeUnchanged ==
    last.op = "set_coper" =>
        /\ Len(last.args) = 1
        /\ Len(last.calls) = 1
        /\ last.calls[1].args = << ryzen_adj, last.args[1] >>

\* set_coper was given an encoded magnitude and the native call got it
C13_Witness ==
    /\ last.op = "set_coper"
    /\ last.args = << 2^20 - 30 >>
    /\ Len(last.calls) = 1
    /\ last.calls[1].args[2] = 2^20 - 30

\* the member of RyzenFamily whose discriminant is id, if there is one
Members(id) == { m \in RyzenFamily : m[1] = id }

\* C14: the CPU-family reader returns the member of the enumeration whose
\* discriminant is the raw identifier the library gave; for an identifier
\* that is no member it fails with UnknowFamily carrying that identifier,
\* and never returns a member in its place.
C14_FamilyMappedOrUnknown ==
    (last.op = "get_cpu_family" /\ init_table_result = None) =>
        LET id == last.native.int
        IN  /\ Members(id) # { } =>
                  \E m \in Members(id) : last.result = Ok(Family(m[2]))
            /\ Members(id) = { } => last.result = UnknowFamily(id)

\* the library gave the identifier after the last member and the reader
\* failed with it
C14_Witness ==
    /\ last.op = "get_cpu_family"
    /\ last.native = I32(ryzen_family_FAM_REMBRANDT + 1)
    /\ last.result = UnknowFamily(ryzen_family_FAM_REMBRANDT + 1)

\* C15: every accessor that makes a native call calls the function of its
\* own name, so that no two accessors call the same one.
C15_OwnNativeCall ==
    (last.op \in Readers \cup Writers /\ Len(last.calls) = 1) =>
        last.calls[1].fn = last.op

\* C16: set_coall, after whatever came before it on the session, passes the
\* u32 it is given to the native set_coall unchanged, in one call, and
\* returns Ok when the native status is 0.
C16_SetCoallRawAndRepeatable ==
    [][ (phase = "live" /\ Acts /\ last'.op = "set_coall") =>
            /\ last'.calls =
                  << Call("set_coall", << ryzen_adj, last'.args[1] >>) >>
            /\ last'.native.int = 0 => last'.result = Ok(Unit)
            /\ last'.result.ok => last'.native.int = 0
      ]_vars

\* set_coall was given the second magnitude of the test's sweep and
\* succeeded
C16_Witness ==
    /\ last.op = "set_coall"
    /\ last.args = << SweepStart + SweepStep >>
    /\ last.calls =
          << Call("set_coall", << ryzen_adj, SweepStart + SweepStep >>) >>
    /\ last.result = Ok(Unit)

\* C17: no public operation on a session, whether it succeeds or fails,
\* changes the session's handle or its recorded Table-Init Status: both stay
\* what new set them to, until the session is dropped and after.
C17_SessionFieldsFrozen ==
    [][ Constructed =>
            /\ ryzen_adj' = ryzen_adj
            /\ init_table_result' = init_table_result
      ]_vars

\* a refresh succeeded on a session whose init_table had succeeded, and the
\* fields are what new set
C17_Witness ==
    /\ last.op = "refresh"
    /\ last.result = Ok(Unit)
    /\ init_table_ret = Some(0)
    /\ init_table_result = None
    /\ ryzen_adj \in Handles

\* C18: the CPU-family reader is gated like the other readers: with a
\* status S recorded it fails with InitTableError(S) and makes no native
\* call; and when the library gives FAM_UNKNOWN it returns Ok with the
\* member Unknow, not the error UnknowFamily.
C18_FamilyGatedAndUnknowIsMember ==
    last.op = "get_cpu_family" =>
        /\ init_table_result # None =>
              /\ last.result = InitTableError(init_table_result[1])
              /\ last.calls = << >>
        /\ (init_table_result = None
            /\ last.native = I32(ryzen_family_FAM_UNKNOWN)) =>
              last.result = Ok(Family("Unknow"))

\* the library gave FAM_UNKNOWN and the reader returned the member Unknow
C18_Witness ==
    /\ last.op = "get_cpu_family"
    /\ last.native = I32(ryzen_family_FAM_UNKNOWN)
    /\ Len(last.calls) = 1
    /\ last.result = Ok(Family("Unknow"))

====
